---- MODULE Spec2Model ----
(***************************************************************************)
(* A model of mccat (src/src/main.rs): one mccat process started with some *)
(* command line, together with its environment: the datagrams that arrive  *)
(* at its socket, the chunks read from standard input, and the I/O calls   *)
(* that fail.  Bytes are the integers 0..255; a payload is a sequence of   *)
(* bytes.                                                                  *)
(***************************************************************************)
EXTENDS Integers, Sequences, FiniteSets, TLC

(***************************************************************************)
(* Bounds of the model.                                                    *)
(***************************************************************************)
MaxTail == 1      \* longest arbitrary tail the peers append to a payload head
MaxRecv == 2      \* datagrams one socket receives in a run
MaxChunk == 3     \* longest chunk one read of standard input returns
MaxRead == 2      \* non-empty reads of standard input in a run
MaxSend == 3      \* probes the ping sender sends in a run
MaxQueue == 1     \* datagrams waiting in the ping socket's receive queue
NetProbes == 2    \* probes the ping session sends among several sessions

(***************************************************************************)
(* Bytes and literal texts of the program.                                 *)
(***************************************************************************)
NL == 10                              \* b'\n'
BufSize == 16384                      \* [0u8; 16384]
I32Max == 2147483647                  \* the type of seqnum is i32

PING == <<80, 73, 78, 71>>            \* b"PING"
PONG == <<80, 79, 78, 71>>            \* "PONG"
PINGSP == <<80, 73, 78, 71, 32>>      \* "PING "
REPLACEMENT == <<239, 191, 189>>      \* U+FFFD in UTF-8

Drop(s, n) == SubSeq(s, n + 1, Len(s))
Take(s, n) == SubSeq(s, 1, n)
Min(a, b) == IF a < b THEN a ELSE b

\* A prefix test that leaves out the last byte of the prefix.
StartsWith_AllButLast(data, prefix) ==
    /\ Len(data) >= Len(prefix) - 1
    /\ Take(data, Len(prefix) - 1) = Take(prefix, Len(prefix) - 1)

\* data.starts_with(b"PING")
StartsWith(data, prefix) ==
    /\ Len(data) >= Len(prefix)
    /\ Take(data, Len(prefix)) = prefix

(***************************************************************************)
(* String::from_utf8_lossy, as bytes to bytes: the UTF-8 text of the       *)
(* resulting string.  Every maximal invalid sequence becomes U+FFFD.       *)
(***************************************************************************)
SafeGet(s, i) == IF i <= Len(s) THEN s[i] ELSE 0
IsCont(b) == b \in 128..191
Utf8CharWidth(b) ==
    IF b < 128 THEN 1
    ELSE IF b \in 194..223 THEN 2
    ELSE IF b \in 224..239 THEN 3
    ELSE IF b \in 240..244 THEN 4
    ELSE 0
Second3Ok(b1, b2) ==
    \/ b1 = 224 /\ b2 \in 160..191
    \/ b1 \in 225..236 /\ b2 \in 128..191
    \/ b1 = 237 /\ b2 \in 128..159
    \/ b1 \in 238..239 /\ b2 \in 128..191
Second4Ok(b1, b2) ==
    \/ b1 = 240 /\ b2 \in 144..191
    \/ b1 \in 241..243 /\ b2 \in 128..191
    \/ b1 = 244 /\ b2 \in 128..143

\* The first chunk of a non-empty s: whether it is a valid character, and
\* the number of bytes it covers.
Utf8Chunk(s) ==
    LET b == s[1]
        w == Utf8CharWidth(b)
    IN  IF w = 1 THEN [valid |-> TRUE, n |-> 1]
        ELSE IF w = 2 THEN
            IF IsCont(SafeGet(s, 2)) THEN [valid |-> TRUE, n |-> 2]
            ELSE [valid |-> FALSE, n |-> 1]
        ELSE IF w = 3 THEN
            IF ~Second3Ok(b, SafeGet(s, 2)) THEN [valid |-> FALSE, n |-> 1]
            ELSE IF ~IsCont(SafeGet(s, 3)) THEN [valid |-> FALSE, n |-> 2]
            ELSE [valid |-> TRUE, n |-> 3]
        ELSE IF w = 4 THEN
            IF ~Second4Ok(b, SafeGet(s, 2)) THEN [valid |-> FALSE, n |-> 1]
            ELSE IF ~IsCont(SafeGet(s, 3)) THEN [valid |-> FALSE, n |-> 2]
            ELSE IF ~IsCont(SafeGet(s, 4)) THEN [valid |-> FALSE, n |-> 3]
            ELSE [valid |-> TRUE, n |-> 4]
        ELSE [valid |-> FALSE, n |-> 1]

RECURSIVE FromUtf8Lossy(_)
FromUtf8Lossy(s) ==
    IF s = <<>> THEN <<>>
    ELSE LET c == Utf8Chunk(s)
             rest == [t \in {Drop(s, c.n)} |-> FromUtf8Lossy(t)]
         IN  (IF c.valid THEN Take(s, c.n) ELSE REPLACEMENT)
                 \o rest[Drop(s, c.n)]

\* s is well-formed UTF-8.
RECURSIVE IsUtf8(_)
IsUtf8(s) ==
    IF s = <<>> THEN TRUE
    ELSE LET c == Utf8Chunk(s)
         IN  c.valid /\ IsUtf8(Drop(s, c.n))

(***************************************************************************)
(* format!("{}", n) of an integer: its decimal digits, with a sign.        *)
(***************************************************************************)
RECURSIVE Digits(_)
Digits(n) ==
    IF n < 10 THEN <<48 + n>>
    ELSE Digits(n \div 10) \o <<48 + (n % 10)>>
\* The digits of -n for n < 0, computed without negating n: the least i32
\* has no positive counterpart.
DigitsOfNegative(n) ==
    LET last == (10 - (n % 10)) % 10
    IN  IF n > -10 THEN <<48 - n>>
        ELSE Digits(0 - ((n + last) \div 10)) \o <<48 + last>>
Display(n) == IF n < 0 THEN <<45>> \o DigitsOfNegative(n) ELSE Digits(n)

\* format!("PONG{}", String::from_utf8_lossy(seqnum)).as_bytes()
PongPayload(data) == PONG \o FromUtf8Lossy(Drop(data, Len(PING)))
\* format!("PING {}", seqnum).as_bytes()
PingPayload(n) == PINGSP \o Display(n)

(***************************************************************************)
(* The command line.  An address argument is its family and the part the   *)
(* multicast test reads: the first octet of an IPv4 address, the first     *)
(* 16-bit segment of an IPv6 address; "bad" is a text that is no address.  *)
(***************************************************************************)
NoAddr == [fam |-> "none", top |-> 0]
AddrArgs ==
    {[fam |-> "V4", top |-> t] : t \in {223, 224, 240}}
        \cup {[fam |-> "V6", top |-> t] : t \in {65279, 65282}}
        \cup {[fam |-> "bad", top |-> 0]}
CmdArgs == {"listen", "send", "ping", "bogus"}
PortArgs == {5000, 65536}
ArgsSet ==
    {[argc |-> n, cmd |-> "bogus", addr |-> NoAddr, port |-> 0] : n \in 0..2}
        \cup {[argc |-> 3, cmd |-> c, addr |-> a, port |-> p] :
                 c \in CmdArgs, a \in AddrArgs, p \in PortArgs}

\* A multicast test without the upper end of the IPv4 range.
IsMulticast_NoUpperEnd(addr) ==
    IF addr.fam = "V4" THEN addr.top >= 224
    ELSE (addr.top \div 256) = 255

\* Ipv4Addr::is_multicast, Ipv6Addr::is_multicast
IsMulticast(addr) ==
    IF addr.fam = "V4" THEN addr.top \in 224..239
    ELSE (addr.top \div 256) = 255

\* parse_cmdline: the error, or "none" and the parsed triple.
ParseCmdline(a) ==
    IF a.argc < 3 THEN [err |-> "InvalidInput", cmd |-> "none"]
    ELSE IF a.cmd \notin {"listen", "send", "ping"}
        THEN [err |-> "InvalidInput", cmd |-> "none"]
    ELSE IF a.addr.fam = "bad" THEN [err |-> "AddrParseError", cmd |-> "none"]
    ELSE IF a.port \notin 0..65535 THEN [err |-> "ParseIntError", cmd |-> "none"]
    ELSE [err |-> "none", cmd |-> a.cmd]

(***************************************************************************)
(* The environment: the peers that send to the socket, and what they send. *)
(***************************************************************************)
\* An endpoint is an address and a port.  The peers are two unicast endpoints.
NoPeer == [addr |-> NoAddr, port |-> 0]
Peers == {[addr |-> [fam |-> "V4", top |-> 10], port |-> p] : p \in {40001, 40002}}
RECURSIVE SeqsUpTo(_, _)
SeqsUpTo(S, n) ==
    IF n = 0 THEN {<<>>}
    ELSE LET shorter == SeqsUpTo(S, n - 1)
         IN  shorter \cup {Append(s, b) : s \in shorter, b \in S}

\* Space, '1', and the two bytes of U+00E9, each of which alone is invalid.
TailBytes == {32, 49, 195, 169}
Heads == {<<>>, <<80, 73, 78>>, PING, PONG}
\* " 1" as in a probe, and U+00E9, besides every short tail.
Tails == SeqsUpTo(TailBytes, MaxTail) \cup {<<32, 49>>, <<195, 169>>}
Payloads == {h \o t : h \in Heads, t \in Tails}

\* 'a', '\r', '\n'
ChunkBytes == {97, 13, NL}
Chunks == SeqsUpTo(ChunkBytes, MaxChunk) \ {<<>>}

\* What reaches the ping socket: the reply "PONG 1", and a datagram that is
\* not UTF-8.
Replies == {PONG \o <<32, 49>>, <<195>>}

VARIABLES
    args,       \* the command line
    cmd,        \* the parsed command, "none" before parsing
    multiaddr,  \* the parsed address
    port,       \* the parsed port
    pc,         \* where the main thread is in run()
    status,     \* "running", or how the process has ended
    err,        \* the error run() returned, "none" if none
    failedAt,   \* where run() was when it returned the error
    ops,        \* the socket operations called so far
    sock,       \* the socket: bound, its local port, joined group, peer
    announced,  \* "Listening on ..." has been printed
    buf,        \* the main thread's buffer, up to the last byte ever written
    len,        \* the length the last receive or read returned
    src,        \* the source of the last datagram received
    nrecv,      \* datagrams received by the process
    nread,      \* non-empty reads of standard input
    nsent,      \* datagrams sent
    nlog,       \* datagrams logged on standard output
    sent,       \* the datagrams sent in the current iteration of the loop
    logged,     \* the lines logged in the current iteration of the loop
    seqnum,     \* the ping sender's counter
    rpc,        \* where the ping receiver thread is
    rbuf,       \* the receiver thread's buffer
    rlen,       \* the length its last receive returned
    rsrc,       \* the source of its last datagram
    inq,        \* datagrams delivered to the ping socket, not yet received
    ndelivered, \* datagrams delivered to the ping socket
    flight,     \* several sessions: the datagrams sent and not yet received
    lsn,        \* several sessions: the listen sessions
    png,        \* several sessions: the ping session
    snd         \* several sessions: the send session

vars == <<args, cmd, multiaddr, port, pc, status, err, failedAt, ops, sock, announced,
          buf, len, src, nrecv, nread, nsent, nlog, sent, logged,
          seqnum, rpc, rbuf, rlen, rsrc, inq, ndelivered,
          flight, lsn, png, snd>>

\* The process that the specifications of one session follow.
procVars == <<args, cmd, multiaddr, port, pc, status, err, failedAt, ops, sock,
              announced, buf, len, src, nrecv, nread, nsent, nlog, sent, logged,
              seqnum, rpc, rbuf, rlen, rsrc, inq, ndelivered>>
\* The sessions and the network of the specification of several sessions.
netVars == <<flight, lsn, png, snd>>

mainVars == <<cmd, multiaddr, port, pc, status, err, failedAt, ops, sock, announced,
              buf, len, src, nrecv, nread, nsent, sent, seqnum>>
recvVars == <<rpc, rbuf, rlen, rsrc>>

NoSock == [bound |-> FALSE, lport |-> 0, group |-> NoAddr, peer |-> NoPeer]

\* bytes of "ping-test"
PingTest == <<112, 105, 110, 103, 45, 116, 101, 115, 116>>

\* The listen sessions of the system of several sessions, each on a host of
\* its own, and the ephemeral endpoints of its ping and send sessions.
Listeners == {"L1", "L2"}
ListenerHost(l) == [fam |-> "V4", top |-> IF l = "L1" THEN 11 ELSE 12]
PingerEndpoint == [addr |-> [fam |-> "V4", top |-> 10], port |-> 40001]
SenderEndpoint == [addr |-> [fam |-> "V4", top |-> 10], port |-> 40002]

\* What the send session of that system reads before the end of its input:
\* nothing, ping-test, "PING 9\n", or "PONG 1".
Scripts ==
    {<<>>, <<PingTest>>, <<PING \o <<32, 57, NL>>>>, <<PONG \o <<32, 49>>>>}

\* The sessions before their first receive, send or read.
NetStart(script) ==
    /\ flight = {}
    /\ lsn = [l \in Listeners |->
                [nrecv |-> 0, nprobe |-> 0, nsent |-> 0, log |-> {}]]
    /\ png = [seqnum |-> 0, nsent |-> 0, nrecv |-> 0, log |-> {}]
    /\ snd = [script |-> script, input |-> script, nread |-> 0, nsent |-> 0,
              status |-> "running"]

Init ==
    /\ args \in ArgsSet
    /\ cmd = "none"
    /\ multiaddr = NoAddr
    /\ port = 0
    /\ pc = "start"
    /\ status = "running"
    /\ err = "none"
    /\ failedAt = "nowhere"
    /\ ops = {}
    /\ sock = NoSock
    /\ announced = FALSE
    /\ buf = <<>>
    /\ len = 0
    /\ src = NoPeer
    /\ nrecv = 0
    /\ nread = 0
    /\ nsent = 0
    /\ nlog = 0
    /\ sent = <<>>
    /\ logged = <<>>
    /\ seqnum = 0
    /\ rpc = "unborn"
    /\ rbuf = <<>>
    /\ rlen = 0
    /\ rsrc = NoPeer
    /\ inq = <<>>
    /\ ndelivered = 0
    /\ NetStart(<<>>)

\* A main that prints the error and returns, so that the process ends with 0.
Fail_ExitZero(e) ==
    /\ pc' = "done"
    /\ status' = "exit0"
    /\ err' = e
    /\ failedAt' = pc

\* run() returns Err(e): main prints it on standard error and exits with 1.
Fail(e) ==
    /\ pc' = "done"
    /\ status' = "exit1"
    /\ err' = e
    /\ failedAt' = pc

\* A receive or read of data into a buffer: the first bytes are overwritten,
\* the rest of the buffer keeps what it held.
Fill(b, data) == data \o Drop(b, Len(data))
Truncated(data) == Take(data, Min(Len(data), BufSize))

(***************************************************************************)
(* run(), up to the dispatch on the command.                               *)
(***************************************************************************)
RunStart ==
    /\ pc = "start"
    /\ LET r == ParseCmdline(args)
       IN  IF r.err # "none"
           THEN /\ Fail(r.err)
                /\ UNCHANGED <<cmd, multiaddr, port>>
           ELSE /\ cmd' = r.cmd
                /\ multiaddr' = args.addr
                /\ port' = args.port
                /\ IF ~IsMulticast(args.addr)
                   THEN Fail("InvalidInput")
                   ELSE /\ pc' = (CASE r.cmd = "listen" -> "listen_bind"
                                    [] r.cmd = "send" -> "send_bind"
                                    [] OTHER -> "ping_bind")
                        /\ UNCHANGED <<status, err, failedAt>>
    /\ UNCHANGED netVars
    /\ UNCHANGED <<args, ops, sock, announced, buf, len, src, nrecv, nread,
                   nsent, nlog, sent, logged, seqnum, inq, ndelivered>>
    /\ UNCHANGED recvVars

(***************************************************************************)
(* Command::Listen                                                         *)
(***************************************************************************)
ListenBind ==
    /\ pc = "listen_bind"
    /\ ops' = ops \cup {"bind"}
    /\ \/ /\ sock' = [sock EXCEPT !.bound = TRUE, !.lport = port]
          /\ pc' = "listen_join"
          /\ UNCHANGED <<status, err, failedAt>>
       \/ /\ Fail("Io")
          /\ UNCHANGED sock
    /\ UNCHANGED netVars
    /\ UNCHANGED <<args, cmd, multiaddr, port, announced, buf, len, src,
                   nrecv, nread, nsent, nlog, sent, logged, seqnum, inq,
                   ndelivered>>
    /\ UNCHANGED recvVars

\* A listener that goes on to receive when the join has failed.
ListenJoin_IgnoreFailure ==
    /\ pc = "listen_join"
    /\ ops' = ops \cup {"join"}
    /\ \/ /\ sock' = [sock EXCEPT !.group = multiaddr]
          /\ announced' = TRUE
          /\ pc' = "listen_recv"
          /\ UNCHANGED <<status, err, failedAt>>
       \/ /\ pc' = "listen_recv"
          /\ UNCHANGED <<status, err, failedAt, sock, announced>>
    /\ UNCHANGED netVars
    /\ UNCHANGED <<args, cmd, multiaddr, port, buf, len, src, nrecv, nread,
                   nsent, nlog, sent, logged, seqnum, inq, ndelivered>>
    /\ UNCHANGED recvVars

ListenJoin ==
    /\ pc = "listen_join"
    /\ ops' = ops \cup {"join"}
    /\ \/ /\ sock' = [sock EXCEPT !.group = multiaddr]
          /\ announced' = TRUE
          /\ pc' = "listen_recv"
          /\ UNCHANGED <<status, err, failedAt>>
       \/ /\ Fail("Io")
          /\ UNCHANGED <<sock, announced>>
    /\ UNCHANGED netVars
    /\ UNCHANGED <<args, cmd, multiaddr, port, buf, len, src, nrecv, nread,
                   nsent, nlog, sent, logged, seqnum, inq, ndelivered>>
    /\ UNCHANGED recvVars

\* A listener that notes a receive error and receives again.
ListenRecv_RetryOnError ==
    /\ pc = "listen_recv"
    /\ nrecv < MaxRecv
    /\ ops' = ops \cup {"recv"}
    /\ \/ \E s \in Peers, d \in Payloads :
             /\ buf' = Fill(buf, Truncated(d))
             /\ len' = Len(Truncated(d))
             /\ src' = s
             /\ nrecv' = nrecv + 1
             /\ sent' = <<>>
             /\ logged' = <<>>
             /\ pc' = "listen_handle"
             /\ UNCHANGED <<status, err, failedAt>>
       \/ /\ err' = "Io"
          /\ failedAt' = pc
          /\ UNCHANGED <<pc, status, buf, len, src, nrecv, sent, logged>>
    /\ UNCHANGED netVars
    /\ UNCHANGED <<args, cmd, multiaddr, port, sock, announced, nread, nsent,
                   nlog, seqnum, inq, ndelivered>>
    /\ UNCHANGED recvVars

\* sock.recv_from(&mut buf)?
ListenRecv ==
    /\ pc = "listen_recv"
    /\ nrecv < MaxRecv
    /\ ops' = ops \cup {"recv"}
    /\ \/ \E s \in Peers, d \in Payloads :
             /\ buf' = Fill(buf, Truncated(d))
             /\ len' = Len(Truncated(d))
             /\ src' = s
             /\ nrecv' = nrecv + 1
             /\ sent' = <<>>
             /\ logged' = <<>>
             /\ pc' = "listen_handle"
             /\ UNCHANGED <<status, err, failedAt>>
       \/ /\ Fail("Io")
          /\ UNCHANGED <<buf, len, src, nrecv, sent, logged>>
    /\ UNCHANGED netVars
    /\ UNCHANGED <<args, cmd, multiaddr, port, sock, announced, nread, nsent,
                   nlog, seqnum, inq, ndelivered>>
    /\ UNCHANGED recvVars

\* The line println!("{} said: {}", src, String::from_utf8_lossy(data)) prints.
SaidLine(s, data) == [kind |-> "said", who |-> s, text |-> FromUtf8Lossy(data)]
\* A reply that is sent to the group instead of the probe's source.
PongReply_ToGroup(s, data) ==
    [dst |-> [addr |-> multiaddr, port |-> port], data |-> PongPayload(data)]

\* The datagram the listener sends for a probe.
PongReply(s, data) == [dst |-> s, data |-> PongPayload(data)]

\* A loop body that logs only in the branch that sends no reply.
ListenHandle_LogInElse ==
    /\ pc = "listen_handle"
    /\ LET data == Take(buf, len)
       IN  \/ /\ StartsWith(data, PING)
              /\ ops' = ops \cup {"send"}
              /\ sent' = Append(sent, PongReply(src, data))
              /\ nsent' = nsent + 1
              /\ pc' = "listen_recv"
              /\ UNCHANGED <<status, err, failedAt, logged, nlog>>
           \/ /\ StartsWith(data, PING)
              /\ ops' = ops \cup {"send"}
              /\ Fail("Io")
              /\ UNCHANGED <<sent, nsent, logged, nlog>>
           \/ /\ ~StartsWith(data, PING)
              /\ logged' = Append(logged, SaidLine(src, data))
              /\ nlog' = nlog + 1
              /\ pc' = "listen_recv"
              /\ UNCHANGED <<status, err, failedAt, ops, sent, nsent>>
    /\ UNCHANGED netVars
    /\ UNCHANGED <<args, cmd, multiaddr, port, sock, announced, buf, len, src,
                   nrecv, nread, seqnum, inq, ndelivered>>
    /\ UNCHANGED recvVars

\* A listener that handles the whole buffer instead of the bytes just received.
ListenHandle_WholeBuffer ==
    /\ pc = "listen_handle"
    /\ LET data == buf
       IN  \/ /\ StartsWith(data, PING)
              /\ ops' = ops \cup {"send"}
              /\ sent' = Append(sent, PongReply(src, data))
              /\ nsent' = nsent + 1
              /\ logged' = Append(logged, SaidLine(src, data))
              /\ nlog' = nlog + 1
              /\ pc' = "listen_recv"
              /\ UNCHANGED <<status, err, failedAt>>
           \/ /\ StartsWith(data, PING)
              /\ ops' = ops \cup {"send"}
              /\ Fail("Io")
              /\ UNCHANGED <<sent, nsent, logged, nlog>>
           \/ /\ ~StartsWith(data, PING)
              /\ logged' = Append(logged, SaidLine(src, data))
              /\ nlog' = nlog + 1
              /\ pc' = "listen_recv"
              /\ UNCHANGED <<status, err, failedAt, ops, sent, nsent>>
    /\ UNCHANGED netVars
    /\ UNCHANGED <<args, cmd, multiaddr, port, sock, announced, buf, len, src,
                   nrecv, nread, seqnum, inq, ndelivered>>
    /\ UNCHANGED recvVars

\* The rest of the loop body: the reply to a probe, then the log line.
ListenHandle ==
    /\ pc = "listen_handle"
    /\ LET data == Take(buf, len)
       IN  \/ /\ StartsWith(data, PING)
              /\ ops' = ops \cup {"send"}
              /\ sent' = Append(sent, PongReply(src, data))
              /\ nsent' = nsent + 1
              /\ logged' = Append(logged, SaidLine(src, data))
              /\ nlog' = nlog + 1
              /\ pc' = "listen_recv"
              /\ UNCHANGED <<status, err, failedAt>>
           \/ /\ StartsWith(data, PING)
              /\ ops' = ops \cup {"send"}
              /\ Fail("Io")
              /\ UNCHANGED <<sent, nsent, logged, nlog>>
           \/ /\ ~StartsWith(data, PING)
              /\ logged' = Append(logged, SaidLine(src, data))
              /\ nlog' = nlog + 1
              /\ pc' = "listen_recv"
              /\ UNCHANGED <<status, err, failedAt, ops, sent, nsent>>
    /\ UNCHANGED netVars
    /\ UNCHANGED <<args, cmd, multiaddr, port, sock, announced, buf, len, src,
                   nrecv, nread, seqnum, inq, ndelivered>>
    /\ UNCHANGED recvVars

(***************************************************************************)
(* Command::Send                                                           *)
(***************************************************************************)
\* UdpSocket::bind on the wildcard address and port 0.
SendBind ==
    /\ pc = "send_bind"
    /\ ops' = ops \cup {"bind"}
    /\ \/ /\ sock' = [sock EXCEPT !.bound = TRUE]
          /\ pc' = "send_connect"
          /\ UNCHANGED <<status, err, failedAt>>
       \/ /\ Fail("Io")
          /\ UNCHANGED sock
    /\ UNCHANGED netVars
    /\ UNCHANGED <<args, cmd, multiaddr, port, announced, buf, len, src,
                   nrecv, nread, nsent, nlog, sent, logged, seqnum, inq,
                   ndelivered>>
    /\ UNCHANGED recvVars

SendConnect ==
    /\ pc = "send_connect"
    /\ ops' = ops \cup {"connect"}
    /\ \/ /\ sock' = [sock EXCEPT !.peer = [addr |-> multiaddr, port |-> port]]
          /\ pc' = "send_read"
          /\ UNCHANGED <<status, err, failedAt>>
       \/ /\ Fail("Io")
          /\ UNCHANGED sock
    /\ UNCHANGED netVars
    /\ UNCHANGED <<args, cmd, multiaddr, port, announced, buf, len, src,
                   nrecv, nread, nsent, nlog, sent, logged, seqnum, inq,
                   ndelivered>>
    /\ UNCHANGED recvVars

\* A test for the end of input that never holds.
EndOfInput_Never(n) == FALSE

\* if len == 0
EndOfInput(n) == n = 0

\* stdin.read(&mut buf)?, and the return on a read of zero bytes.
SendRead ==
    /\ pc = "send_read"
    /\ \/ \E c \in Chunks \cup {<<>>} :
             /\ Len(c) > 0 => nread < MaxRead
             /\ buf' = Fill(buf, Truncated(c))
             /\ len' = Len(Truncated(c))
             /\ nread' = nread + (IF Len(c) > 0 THEN 1 ELSE 0)
             /\ IF EndOfInput(Len(Truncated(c)))
                THEN /\ pc' = "done"
                     /\ status' = "exit0"
                     /\ UNCHANGED <<sent, err, failedAt>>
                ELSE /\ sent' = <<>>
                     /\ pc' = "send_send"
                     /\ UNCHANGED <<status, err, failedAt>>
       \/ /\ Fail("Io")
          /\ UNCHANGED <<buf, len, nread, sent>>
    /\ UNCHANGED netVars
    /\ UNCHANGED <<args, cmd, multiaddr, port, ops, sock, announced, src,
                   nrecv, nsent, nlog, logged, seqnum, inq, ndelivered>>
    /\ UNCHANGED recvVars

\* A chomp that also removes the carriage return of a final "\r\n".
Chomp_CrLf(data) ==
    IF Len(data) > 1 /\ data[Len(data)] = NL /\ data[Len(data) - 1] = 13
    THEN Take(data, Len(data) - 2)
    ELSE IF Len(data) > 0 /\ data[Len(data)] = NL
    THEN Take(data, Len(data) - 1)
    ELSE data

\* if let Some(&b'\n') = data.last() { data = &data[..len - 1]; }
Chomp(data) ==
    IF Len(data) > 0 /\ data[Len(data)] = NL
    THEN Take(data, Len(data) - 1)
    ELSE data

\* The chomp and sock.send(data)?
SendSend ==
    /\ pc = "send_send"
    /\ ops' = ops \cup {"send"}
    /\ \/ /\ sent' = Append(sent, [dst |-> sock.peer,
                                   data |-> Chomp(Take(buf, len))])
          /\ nsent' = nsent + 1
          /\ pc' = "send_read"
          /\ UNCHANGED <<status, err, failedAt>>
       \/ /\ Fail("Io")
          /\ UNCHANGED <<sent, nsent>>
    /\ UNCHANGED netVars
    /\ UNCHANGED <<args, cmd, multiaddr, port, sock, announced, buf, len, src,
                   nrecv, nread, nlog, logged, seqnum, inq, ndelivered>>
    /\ UNCHANGED recvVars

(***************************************************************************)
(* Command::Ping                                                           *)
(***************************************************************************)
\* UdpSocket::bind on the wildcard address and port 0.
PingBind ==
    /\ pc = "ping_bind"
    /\ ops' = ops \cup {"bind"}
    /\ \/ /\ sock' = [sock EXCEPT !.bound = TRUE]
          /\ pc' = "ping_clone"
          /\ UNCHANGED <<status, err, failedAt>>
       \/ /\ Fail("Io")
          /\ UNCHANGED sock
    /\ UNCHANGED netVars
    /\ UNCHANGED <<args, cmd, multiaddr, port, announced, buf, len, src,
                   nrecv, nread, nsent, nlog, sent, logged, seqnum, inq,
                   ndelivered>>
    /\ UNCHANGED recvVars

\* sock.try_clone()? and thread::spawn of the receiver.
PingClone ==
    /\ pc = "ping_clone"
    /\ ops' = ops \cup {"clone"}
    /\ \/ /\ rpc' = "recv"
          /\ pc' = "ping_send"
          /\ UNCHANGED <<status, err, failedAt>>
       \/ /\ Fail("Io")
          /\ UNCHANGED rpc
    /\ UNCHANGED netVars
    /\ UNCHANGED <<args, cmd, multiaddr, port, sock, announced, buf, len, src,
                   nrecv, nread, nsent, nlog, sent, logged, seqnum, inq,
                   ndelivered, rbuf, rlen, rsrc>>

\* An increment that skips a number.
AddOne_Skip(x) == {[panic |-> FALSE, val |-> x + 2]}

\* seqnum += 1 on an i32: past the largest value a build with overflow checks
\* panics, and a build without them wraps around.
AddOne(x) ==
    IF x = I32Max
    THEN {[panic |-> TRUE, val |-> x], [panic |-> FALSE, val |-> 0 - I32Max - 1]}
    ELSE {[panic |-> FALSE, val |-> x + 1]}

\* A probe that carries the number after the counter's.
Probe_NextNumber(n) ==
    [dst |-> [addr |-> multiaddr, port |-> port], data |-> PingPayload(n + 1)]

\* The probe with sequence number n.
Probe(n) == [dst |-> [addr |-> multiaddr, port |-> port], data |-> PingPayload(n)]

\* seqnum += 1; sock.send_to(format!("PING {}", seqnum).as_bytes(), ...)?
PingSend ==
    /\ pc = "ping_send"
    /\ nsent < MaxSend
    /\ \E r \in AddOne(seqnum) :
          IF r.panic
          THEN /\ pc' = "done"
               /\ status' = "panic101"
               /\ UNCHANGED <<err, failedAt, ops, seqnum, sent, nsent>>
          ELSE /\ seqnum' = r.val
               /\ ops' = ops \cup {"send"}
               /\ \/ /\ sent' = <<Probe(r.val)>>
                     /\ nsent' = nsent + 1
                     /\ pc' = "ping_sleep"
                     /\ UNCHANGED <<status, err, failedAt>>
                  \/ /\ Fail("Io")
                     /\ UNCHANGED <<sent, nsent>>
    /\ UNCHANGED netVars
    /\ UNCHANGED <<args, cmd, multiaddr, port, sock, announced, buf, len, src,
                   nrecv, nread, nlog, logged, inq, ndelivered>>
    /\ UNCHANGED recvVars

\* A sender that sleeps until the reply to its last probe has been logged.
PingSleep_UntilReply ==
    /\ pc = "ping_sleep"
    /\ nlog >= nsent
    /\ pc' = "ping_send"
    /\ UNCHANGED netVars
    /\ UNCHANGED <<args, cmd, multiaddr, port, status, err, failedAt, ops, sock,
                   announced, buf, len, src, nrecv, nread, nsent, nlog, sent,
                   logged, seqnum, inq, ndelivered, rpc, rbuf, rlen, rsrc>>

\* thread::sleep(Duration::from_millis(250))
PingSleep ==
    /\ pc = "ping_sleep"
    /\ pc' = "ping_send"
    /\ UNCHANGED netVars
    /\ UNCHANGED <<args, cmd, multiaddr, port, status, err, failedAt, ops, sock,
                   announced, buf, len, src, nrecv, nread, nsent, nlog, sent,
                   logged, seqnum, inq, ndelivered>>
    /\ UNCHANGED recvVars

\* The network delivers a datagram to the bound ping socket.
Deliver ==
    /\ cmd = "ping"
    /\ sock.bound
    /\ status = "running"
    /\ Len(inq) < MaxQueue
    /\ ndelivered < MaxRecv
    /\ \E s \in Peers, d \in Replies :
          inq' = Append(inq, [src |-> s, data |-> d])
    /\ ndelivered' = ndelivered + 1
    /\ UNCHANGED netVars
    /\ UNCHANGED <<args, nlog, logged>>
    /\ UNCHANGED mainVars
    /\ UNCHANGED recvVars

\* The receiver thread: sock2.recv_from(&mut buf) returns a datagram.
ReceiverRecv ==
    /\ rpc = "recv"
    /\ status = "running"
    /\ inq # <<>>
    /\ LET d == Truncated(Head(inq).data)
       IN  /\ rbuf' = Fill(rbuf, d)
           /\ rlen' = Len(d)
    /\ rsrc' = Head(inq).src
    /\ inq' = Tail(inq)
    /\ nrecv' = nrecv + 1
    /\ ops' = ops \cup {"recv"}
    /\ logged' = <<>>
    /\ rpc' = "log"
    /\ UNCHANGED netVars
    /\ UNCHANGED <<args, cmd, multiaddr, port, pc, status, err, failedAt, sock,
                   announced, buf, len, src, nread, nsent, nlog, sent, seqnum,
                   ndelivered>>

\* A receive error that is returned from run(), as the sender's errors are.
ReceiverRecvErr_Fatal ==
    /\ rpc = "recv"
    /\ status = "running"
    /\ ops' = ops \cup {"recv"}
    /\ rpc' = "dead"
    /\ pc' = "done"
    /\ status' = "exit1"
    /\ err' = "Io"
    /\ failedAt' = "receiver"
    /\ UNCHANGED netVars
    /\ UNCHANGED <<args, cmd, multiaddr, port, sock, announced, buf, len, src,
                   nrecv, nread, nsent, nlog, sent, logged, seqnum, inq,
                   ndelivered, rbuf, rlen, rsrc>>

\* The receiver thread: recv_from returns an error and unwrap() panics, which
\* ends the thread.
ReceiverRecvErr ==
    /\ rpc = "recv"
    /\ status = "running"
    /\ ops' = ops \cup {"recv"}
    /\ rpc' = "dead"
    /\ UNCHANGED netVars
    /\ UNCHANGED <<args, cmd, multiaddr, port, pc, status, err, failedAt, sock,
                   announced, buf, len, src, nrecv, nread, nsent, nlog, sent,
                   logged, seqnum, inq, ndelivered, rbuf, rlen, rsrc>>

\* The line println!("{} from {}", String::from_utf8_lossy(data), src) prints.
FromLine(s, data) == [kind |-> "from", who |-> s, text |-> FromUtf8Lossy(data)]

\* A receiver that cannot print while the sender sleeps.
ReceiverLog_NotWhileSleeping ==
    /\ rpc = "log"
    /\ pc # "ping_sleep"
    /\ status = "running"
    /\ logged' = Append(logged, FromLine(rsrc, Take(rbuf, rlen)))
    /\ nlog' = nlog + 1
    /\ rpc' = "recv"
    /\ UNCHANGED netVars
    /\ UNCHANGED <<args, inq, ndelivered, rbuf, rlen, rsrc>>
    /\ UNCHANGED mainVars

\* A receiver thread that outlives the process and prints what it had read.
ReceiverLog_AfterExit ==
    /\ rpc = "log"
    /\ logged' = Append(logged, FromLine(rsrc, Take(rbuf, rlen)))
    /\ nlog' = nlog + 1
    /\ rpc' = "recv"
    /\ UNCHANGED netVars
    /\ UNCHANGED <<args, inq, ndelivered, rbuf, rlen, rsrc>>
    /\ UNCHANGED mainVars

ReceiverLog ==
    /\ rpc = "log"
    /\ status = "running"
    /\ logged' = Append(logged, FromLine(rsrc, Take(rbuf, rlen)))
    /\ nlog' = nlog + 1
    /\ rpc' = "recv"
    /\ UNCHANGED netVars
    /\ UNCHANGED <<args, inq, ndelivered, rbuf, rlen, rsrc>>
    /\ UNCHANGED mainVars

Next ==
    \/ RunStart
    \/ ListenBind
    \/ ListenJoin
    \/ ListenRecv
    \/ ListenHandle
    \/ SendBind
    \/ SendConnect
    \/ SendRead
    \/ SendSend
    \/ PingBind
    \/ PingClone
    \/ PingSend
    \/ PingSleep
    \/ Deliver
    \/ ReceiverRecv
    \/ ReceiverRecvErr
    \/ ReceiverLog

Spec == Init /\ [][Next]_vars

(***************************************************************************)
(* The ping session alone, with the scheduling the threads can rely on: a  *)
(* thread that can take a step eventually takes it.  A receive that blocks *)
(* need never fail, so there is no fairness on ReceiverRecvErr.            *)
(***************************************************************************)
InitPing == Init /\ args.cmd = "ping"

NextPing ==
    \/ RunStart
    \/ PingBind
    \/ PingClone
    \/ PingSend
    \/ PingSleep
    \/ Deliver
    \/ ReceiverRecv
    \/ ReceiverRecvErr
    \/ ReceiverLog

PingSpec ==
    /\ InitPing
    /\ [][NextPing]_vars
    /\ WF_vars(RunStart)
    /\ WF_vars(PingBind)
    /\ WF_vars(PingClone)
    /\ WF_vars(PingSend)
    /\ WF_vars(PingSleep)
    /\ WF_vars(ReceiverRecv)
    /\ WF_vars(ReceiverLog)

(***************************************************************************)
(* The ping session late in its run: I32Max - 1 probes have been sent, the *)
(* sender has slept and is about to add one to seqnum; the receiver thread *)
(* waits for a datagram.  The counts nsent, nlog, nrecv and ndelivered     *)
(* count from this state on.                                               *)
(***************************************************************************)
InitOverflow ==
    /\ args \in {a \in ArgsSet : /\ ParseCmdline(a).cmd = "ping"
                                 /\ IsMulticast(a.addr)}
    /\ cmd = "ping"
    /\ multiaddr = args.addr
    /\ port = args.port
    /\ pc = "ping_send"
    /\ status = "running"
    /\ err = "none"
    /\ failedAt = "nowhere"
    /\ ops = {"bind", "clone", "send"}
    /\ sock = [NoSock EXCEPT !.bound = TRUE]
    /\ announced = FALSE
    /\ buf = <<>>
    /\ len = 0
    /\ src = NoPeer
    /\ nrecv = 0
    /\ nread = 0
    /\ nsent = 0
    /\ nlog = 0
    /\ sent = <<Probe(I32Max - 1)>>
    /\ logged = <<>>
    /\ seqnum = I32Max - 1
    /\ rpc = "recv"
    /\ rbuf = <<>>
    /\ rlen = 0
    /\ rsrc = NoPeer
    /\ inq = <<>>
    /\ ndelivered = 0
    /\ NetStart(<<>>)

NextOverflow ==
    \/ PingSend
    \/ PingSleep
    \/ Deliver
    \/ ReceiverRecv
    \/ ReceiverRecvErr
    \/ ReceiverLog

OverflowSpec == InitOverflow /\ [][NextOverflow]_vars

(***************************************************************************)
(* Several sessions on one group and port: the listen sessions Listeners,  *)
(* bound and joined, one ping session and one send session, bound, each in *)
(* the loop of its command.  One step is one iteration of a loop.  A       *)
(* datagram is in flight from its send to its receive, for any length of   *)
(* time and in any order with the others; one that is never received is    *)
(* lost.  No socket call fails here: what a failure does to a session is   *)
(* in the actions of the single session above.                             *)
(***************************************************************************)
GroupEndpoint == [addr |-> multiaddr, port |-> port]
ListenerEndpoint(l) == [addr |-> ListenerHost(l), port |-> port]

\* A group whose datagrams reach one of its listeners only.
Recipients_OneListener(dst) ==
    IF dst = GroupEndpoint THEN {"L1"}
    ELSE IF dst = PingerEndpoint THEN {"P"}
    ELSE IF dst = SenderEndpoint THEN {"S"}
    ELSE {l \in Listeners : dst = ListenerEndpoint(l)}

\* The sockets a datagram to dst is queued at: every socket that joined the
\* group for the group's endpoint, the socket bound to it for a unicast one.
Recipients(dst) ==
    IF dst = GroupEndpoint THEN Listeners
    ELSE IF dst = PingerEndpoint THEN {"P"}
    ELSE IF dst = SenderEndpoint THEN {"S"}
    ELSE {l \in Listeners : dst = ListenerEndpoint(l)}

\* The copies in flight of the datagram m sent from the endpoint from.
Transmit(from, m) ==
    {[dst |-> m.dst, src |-> from, data |-> m.data, rcpt |-> r] :
        r \in Recipients(m.dst)}

NetInit ==
    /\ args \in {a \in ArgsSet : /\ ParseCmdline(a).cmd = "ping"
                                 /\ a.addr.fam = "V4"
                                 /\ IsMulticast(a.addr)}
    /\ cmd = "none"
    /\ multiaddr = args.addr
    /\ port = args.port
    /\ pc = "start"
    /\ status = "running"
    /\ err = "none"
    /\ failedAt = "nowhere"
    /\ ops = {}
    /\ sock = NoSock
    /\ announced = FALSE
    /\ buf = <<>>
    /\ len = 0
    /\ src = NoPeer
    /\ nrecv = 0
    /\ nread = 0
    /\ nsent = 0
    /\ nlog = 0
    /\ sent = <<>>
    /\ logged = <<>>
    /\ seqnum = 0
    /\ rpc = "unborn"
    /\ rbuf = <<>>
    /\ rlen = 0
    /\ rsrc = NoPeer
    /\ inq = <<>>
    /\ ndelivered = 0
    /\ \E script \in Scripts : NetStart(script)

\* One iteration of the listen loop of listener l (main.rs:51-59).
NetListen(l) ==
    \E d \in flight :
        /\ d.rcpt = l
        /\ LET data == Truncated(d.data)
               probe == StartsWith(data, PING)
           IN  /\ flight' = (flight \ {d}) \cup
                      (IF probe
                       THEN Transmit(ListenerEndpoint(l), PongReply(d.src, data))
                       ELSE {})
               /\ lsn' = [lsn EXCEPT ![l] =
                      [nrecv |-> @.nrecv + 1,
                       nprobe |-> @.nprobe + (IF probe THEN 1 ELSE 0),
                       nsent |-> @.nsent + (IF probe THEN 1 ELSE 0),
                       log |-> @.log \cup {SaidLine(d.src, data)}]]
        /\ UNCHANGED <<png, snd>>
        /\ UNCHANGED procVars

\* One iteration of the ping sender's loop (main.rs:97-101).
NetPingSend ==
    /\ png.nsent < NetProbes
    /\ \E r \in AddOne(png.seqnum) :
          /\ ~r.panic
          /\ flight' = flight \cup Transmit(PingerEndpoint, Probe(r.val))
          /\ png' = [png EXCEPT !.seqnum = r.val, !.nsent = @ + 1]
    /\ UNCHANGED <<lsn, snd>>
    /\ UNCHANGED procVars

\* A ping receiver that answers what it receives with a datagram to its source.
NetPingRecv_AnswerBack ==
    \E d \in flight :
        /\ d.rcpt = "P"
        /\ flight' = (flight \ {d}) \cup
               Transmit(PingerEndpoint, [dst |-> d.src, data |-> PING])
        /\ png' = [png EXCEPT !.nrecv = @ + 1,
                              !.log = @ \cup {FromLine(d.src, Truncated(d.data))}]
        /\ UNCHANGED <<lsn, snd>>
        /\ UNCHANGED procVars

\* One iteration of the ping receiver's loop (main.rs:90-94).
NetPingRecv ==
    \E d \in flight :
        /\ d.rcpt = "P"
        /\ flight' = flight \ {d}
        /\ png' = [png EXCEPT !.nrecv = @ + 1,
                              !.log = @ \cup {FromLine(d.src, Truncated(d.data))}]
        /\ UNCHANGED <<lsn, snd>>
        /\ UNCHANGED procVars

\* One iteration of the send loop that reads a chunk (main.rs:69-80): the
\* socket is connected to the group.
NetSendChunk ==
    /\ snd.status = "running"
    /\ snd.input # <<>>
    /\ LET chunk == Truncated(Head(snd.input))
       IN  /\ ~EndOfInput(Len(chunk))
           /\ flight' = flight \cup
                  Transmit(SenderEndpoint,
                           [dst |-> GroupEndpoint, data |-> Chomp(chunk)])
           /\ snd' = [snd EXCEPT !.input = Tail(@), !.nread = @ + 1,
                                 !.nsent = @ + 1]
    /\ UNCHANGED <<lsn, png>>
    /\ UNCHANGED procVars

\* The iteration of the send loop that reads the end of the input.
NetSendEof ==
    /\ snd.status = "running"
    /\ snd.input = <<>>
    /\ EndOfInput(0)
    /\ snd' = [snd EXCEPT !.status = "exit0"]
    /\ UNCHANGED <<flight, lsn, png>>
    /\ UNCHANGED procVars

NetNext ==
    \/ \E l \in Listeners : NetListen(l)
    \/ NetPingSend
    \/ NetPingRecv
    \/ NetSendChunk
    \/ NetSendEof

NetSpec == NetInit /\ [][NetNext]_vars

\* The same where a session that can take a step of its loop does, so that
\* every datagram queued at a socket that is read is eventually received.
NetFairSpec ==
    /\ NetInit
    /\ [][NetNext]_vars
    /\ \A l \in Listeners : WF_vars(NetListen(l))
    /\ WF_vars(NetPingSend)
    /\ WF_vars(NetPingRecv)
    /\ WF_vars(NetSendChunk)
    /\ WF_vars(NetSendEof)

(***************************************************************************)
(* The properties.                                                         *)
(***************************************************************************)
\* The command line names a command, an address that parses and is outside
\* 224.0.0.0/4 and ff00::/8, and a port.
NonMulticastArgs ==
    /\ args.argc = 3
    /\ args.cmd \in {"listen", "send", "ping"}
    /\ args.port \in 0..65535
    /\ \/ args.addr.fam = "V4" /\ args.addr.top \notin 224..239
       \/ args.addr.fam = "V6" /\ args.addr.top \notin 65280..65535

\* C1: with a valid address that is not multicast, in every mode, no socket
\* operation is ever called and no socket exists, and once run() has taken
\* its first step the process has ended with the error InvalidInput.
C1_NonMulticastRejected ==
    NonMulticastArgs =>
        /\ ops = {}
        /\ sock = NoSock
        /\ rpc = "unborn"
        /\ nsent = 0 /\ nrecv = 0
        /\ \/ pc = "start" /\ status = "running"
           \/ pc = "done" /\ status = "exit1" /\ err = "InvalidInput"

C1_Witness ==
    /\ NonMulticastArgs
    /\ args.addr.fam = "V4" /\ args.addr.top = 240
    /\ args.cmd = "ping"
    /\ pc = "done" /\ status = "exit1" /\ err = "InvalidInput"

\* The payload has at least 4 bytes and the first 4 are 'P' 'I' 'N' 'G'.
IsProbe(d) ==
    /\ Len(d) >= 4
    /\ d[1] = 80 /\ d[2] = 73 /\ d[3] = 78 /\ d[4] = 71

\* The datagram the listener is handling or has just handled.
Received == Take(buf, len)

\* C2: when the listener has handled a payload that starts with PING, the
\* reply it sent is PONG followed by the payload's bytes from index 4 on,
\* byte for byte, addressed to the source of the datagram.
C2_PongEchoesVerbatim ==
    (pc = "listen_recv" /\ nrecv > 0 /\ IsProbe(Received)) =>
        sent = <<[dst |-> src, data |-> PONG \o Drop(Received, 4)]>>

\* C3: handling a payload that does not start with PING sends nothing and
\* calls no socket operation; the step's only effect is one log line, and the
\* listener is back at its receive.
C3_NoReplyToNonProbe ==
    [][(pc = "listen_handle" /\ ~IsProbe(Received)) =>
          /\ sent = <<>> /\ sent' = <<>>
          /\ nsent' = nsent
          /\ ops' = ops
          /\ Len(logged') = 1 /\ nlog' = nlog + 1
          /\ pc' = "listen_recv"
          /\ status' = "running"
          /\ UNCHANGED <<buf, len, src, nrecv, sock, err>>]_vars

C3_Witness ==
    /\ pc = "listen_recv" /\ nrecv = 2
    /\ Received = <<80, 73, 78>>
    /\ sent = <<>> /\ nsent = 0
    /\ Len(logged) = 1 /\ nlog = 2

\* C4 as stated: every datagram received is logged, whether or not the reply
\* to it could be sent; whenever the listener is between iterations or has
\* ended, it has logged as many datagrams as it has received.
C4_AlwaysLogged ==
    (cmd = "listen" /\ pc \in {"listen_recv", "done"}) => nlog = nrecv

\* C4, amended: every datagram received is logged, probe or not, with its
\* source and its lossily decoded payload, except the probe whose reply fails
\* to be sent: that failure ends the session before the log line.
C4_LoggedUnlessReplyFails ==
    /\ [](cmd = "listen" =>
            /\ pc = "listen_recv" => nlog = nrecv
            /\ pc = "listen_handle" => nlog = nrecv - 1
            /\ pc = "done" =>
                  nlog = IF failedAt = "listen_handle" THEN nrecv - 1 ELSE nrecv)
    /\ [][pc = "listen_handle" =>
            \/ /\ nlog' = nlog + 1
               /\ Len(logged') = 1
               /\ logged'[1].kind = "said"
               /\ logged'[1].who = src
               /\ logged'[1].text = FromUtf8Lossy(Received)
               /\ IsUtf8(Received) => logged'[1].text = Received
               /\ pc' = "listen_recv"
            \/ /\ IsProbe(Received)
               /\ "send" \in ops'
               /\ status' = "exit1" /\ failedAt' = "listen_handle"
               /\ nlog' = nlog /\ logged' = logged]_vars

\* A probe and a non-probe have both been logged.
C4_Witness ==
    /\ pc = "listen_recv" /\ nrecv = 2 /\ nlog = 2
    /\ nsent = 1
    /\ ~IsProbe(Received) /\ ~IsUtf8(Received)
    /\ Len(logged) = 1 /\ logged[1].who = src

\* C5: every non-empty chunk read is sent as exactly one datagram before the
\* next read, to the multicast endpoint: the chunk without its last byte if
\* that byte is a newline, the chunk unchanged otherwise.
C5_OneDatagramPerChunk ==
    /\ [](cmd = "send" /\ pc = "send_read" => nsent = nread)
    /\ [][(pc = "send_read" /\ len' > 0 /\ err' = "none") =>
            /\ pc' = "send_send"
            /\ nread' = nread + 1
            /\ nsent' = nsent]_vars
    /\ [][(pc = "send_send" /\ err' = "none") =>
            /\ nsent' = nsent + 1
            /\ sent' = <<[dst |-> [addr |-> multiaddr, port |-> port],
                          data |-> IF Received[len] = 10
                                   THEN SubSeq(Received, 1, len - 1)
                                   ELSE Received]>>
            /\ pc' = "send_read"]_vars

\* The chunk "a\n\n" has been sent as "a\n".
C5_Witness ==
    /\ cmd = "send" /\ pc = "send_read" /\ nsent = 2
    /\ Received = <<97, 10, 10>>
    /\ sent = <<[dst |-> [addr |-> multiaddr, port |-> port], data |-> <<97, 10>>]>>

\* C6: a read of zero bytes ends the send session with success and sends
\* nothing: the process has then sent one datagram per earlier non-empty
\* read, and nothing is sent afterwards.
C6_EndOfInputEndsSession ==
    /\ [](status = "exit0" =>
            /\ cmd = "send" /\ pc = "done" /\ err = "none"
            /\ len = 0
            /\ nsent = nread)
    /\ [][(pc = "send_read" /\ len' = 0 /\ err' = "none") =>
            /\ status' = "exit0"
            /\ nsent' = nsent /\ sent' = sent /\ ops' = ops]_vars
    /\ [][status = "exit0" =>
            /\ status' = "exit0"
            /\ nsent' = nsent /\ ops' = ops]_vars

C6_Witness ==
    /\ status = "exit0" /\ cmd = "send"
    /\ nread = 2 /\ nsent = 2 /\ len = 0

\* The k-th probe, as the claims describe it.
ProbeNo(k) == [dst |-> [addr |-> multiaddr, port |-> port],
               data |-> <<80, 73, 78, 71, 32>> \o Display(k)]

\* C7: in the ping session the probe sent last is always "PING " and the
\* decimal of the number of probes sent; every send adds exactly one to the
\* counter and to that number; no step of the receiver changes the counter
\* or what has been sent.
C7_ProbesNumberedInOrder ==
    /\ [](cmd = "ping" /\ nsent >= 1 => sent = <<ProbeNo(nsent)>>)
    /\ [](cmd = "ping" /\ status = "running" => seqnum = nsent)
    /\ [][(cmd = "ping" /\ nsent' # nsent) =>
            /\ nsent' = nsent + 1
            /\ seqnum' = seqnum + 1
            /\ seqnum' = nsent']_vars
    /\ [][(cmd = "ping" /\ (rpc' # rpc \/ nlog' # nlog \/ nrecv' # nrecv
                                \/ inq' # inq)) =>
            /\ seqnum' = seqnum
            /\ nsent' = nsent
            /\ sent' = sent]_vars

\* The third probe is "PING 3", sent after the receiver has logged twice.
C7_Witness ==
    /\ cmd = "ping" /\ pc = "ping_sleep"
    /\ nsent = 3 /\ seqnum = 3 /\ nlog = 2
    /\ sent[1].data = <<80, 73, 78, 71, 32, 51>>

\* C8: once the sender loop has started, every probe up to the bound is
\* eventually sent unless a send of a probe fails, whatever the receiver
\* does and whether or not any datagram arrives.
C8_SenderNeverStops ==
    \A k \in 1..MaxSend :
        (pc = "ping_send") ~> (nsent >= k \/ failedAt = "ping_send")

\* All probes are sent while the receiver is blocked and nothing has arrived.
C8_Witness ==
    /\ cmd = "ping" /\ status = "running"
    /\ nsent = MaxSend
    /\ rpc = "recv" /\ ndelivered = 0 /\ nrecv = 0

\* C9: a receive error ends the receiver thread and nothing else: the step
\* changes nothing of the main thread and the process keeps running; from
\* then on nothing is received or logged; the sender's next probes continue
\* the sequence and are eventually sent unless a send fails.
C9_ReceiverFailureIsLocal ==
    /\ [][(rpc # "dead" /\ rpc' = "dead") =>
            /\ rpc = "recv"
            /\ status = "running" /\ status' = "running"
            /\ UNCHANGED <<pc, err, failedAt, seqnum, nsent, sent, sock,
                           nlog, logged, nrecv, inq>>]_vars
    /\ [][rpc = "dead" =>
            /\ rpc' = "dead"
            /\ UNCHANGED <<nlog, logged, nrecv>>]_vars
    /\ [][(rpc = "dead" /\ nsent' # nsent) =>
            /\ seqnum' = seqnum + 1
            /\ sent' = <<ProbeNo(nsent + 1)>>]_vars
    /\ \A k \in 1..MaxSend :
          (rpc = "dead" /\ status = "running")
              ~> (nsent >= k \/ failedAt = "ping_send")

\* The receiver died before the first probe; all probes were sent, and a
\* datagram that arrived since waits unlogged.
C9_Witness ==
    /\ rpc = "dead" /\ status = "running"
    /\ nsent = 3 /\ seqnum = 3
    /\ inq # <<>> /\ nlog = 0 /\ nrecv = 0

\* C10: the sleep is a step of the sender alone; the receiver's steps are
\* enabled whenever it has something to do, wherever the sender is; it logs
\* what was delivered; and every datagram delivered is eventually logged
\* unless the receiver thread dies or the process ends.
C10_ReceiverIndependentOfSender ==
    /\ [][(pc = "ping_sleep" /\ pc' # pc) =>
            UNCHANGED <<rpc, rbuf, rlen, rsrc, inq, nlog, logged, nrecv>>]_vars
    /\ [](status = "running" /\ rpc = "log" => ENABLED ReceiverLog)
    /\ [](status = "running" /\ rpc = "recv" /\ inq # <<>> => ENABLED ReceiverRecv)
    /\ [][(cmd = "ping" /\ nrecv' # nrecv) =>
            /\ rsrc' = Head(inq).src
            /\ Take(rbuf', rlen') = Head(inq).data
            /\ inq' = Tail(inq)]_vars
    /\ [][(cmd = "ping" /\ nlog' # nlog) =>
            logged' = <<[kind |-> "from", who |-> rsrc,
                         text |-> FromUtf8Lossy(Take(rbuf, rlen))]>>]_vars
    /\ \A k \in 1..MaxRecv :
          (ndelivered >= k) ~> (nlog >= k \/ rpc = "dead" \/ status # "running")

\* The receiver has taken a datagram and is about to log it while the sender
\* sleeps after its first probe.
C10_Witness ==
    /\ pc = "ping_sleep" /\ status = "running" /\ nsent = 1
    /\ rpc = "log" /\ nrecv = 2 /\ nlog = 1

\* C11: in the listen session an error of the receive or of the send of a
\* reply is the last thing the session does: the failing step receives,
\* sends and logs nothing, the process has ended with status 1 and the error,
\* and nothing is received, sent, logged or called afterwards.
C11_ListenErrorIsFatal ==
    /\ [](failedAt \in {"listen_recv", "listen_handle"} =>
            /\ cmd = "listen"
            /\ pc = "done" /\ status = "exit1" /\ err = "Io")
    /\ [][(cmd = "listen" /\ pc \in {"listen_recv", "listen_handle"}
              /\ err' # "none") =>
            /\ failedAt' = pc
            /\ pc' = "done" /\ status' = "exit1"
            /\ UNCHANGED <<nrecv, nsent, nlog, sent, logged>>]_vars
    /\ [][(cmd = "listen" /\ err # "none") =>
            UNCHANGED <<nrecv, nsent, nlog, sent, logged, ops, status, err>>]_vars

\* The reply to the second datagram could not be sent.
C11_Witness ==
    /\ cmd = "listen" /\ failedAt = "listen_handle"
    /\ status = "exit1" /\ err = "Io"
    /\ nrecv = 2 /\ nlog = 1 /\ nsent = 0

\* C12: a listener, IPv4 or IPv6, calls no receive before its socket is
\* bound to the target port and has joined the group, bind first; when the
\* bind or the join fails it never receives, and the process ends with
\* status 1.
C12_ReceiveAfterBindAndJoin ==
    /\ [](cmd = "listen" /\ ("recv" \in ops \/ pc = "listen_recv") =>
            /\ {"bind", "join"} \subseteq ops
            /\ sock.bound /\ sock.lport = port
            /\ sock.group = multiaddr /\ multiaddr.fam \in {"V4", "V6"})
    /\ [](cmd = "listen" /\ "join" \in ops => "bind" \in ops /\ sock.bound)
    /\ [](failedAt \in {"listen_bind", "listen_join"} =>
            /\ "recv" \notin ops /\ nrecv = 0
            /\ pc = "done" /\ status = "exit1")
    /\ [][(cmd = "listen" /\ "join" \notin ops /\ "join" \in ops') =>
            "bind" \in ops /\ sock.bound]_vars

\* An IPv6 listener has received after bind and join.
C12_Witness ==
    /\ cmd = "listen" /\ multiaddr.fam = "V6"
    /\ "recv" \in ops /\ nrecv = 1
    /\ sock.bound /\ sock.group = multiaddr

\* C13: the process ends with status 0 only in the send session, at the end
\* of input and without an error; every error that run() returns, whatever
\* the command, ends it with status 1; a listen or ping session never ends
\* with status 0.
C13_ExitCodes ==
    /\ status = "exit0" =>
          /\ cmd = "send" /\ pc = "done"
          /\ err = "none" /\ failedAt = "nowhere"
          /\ len = 0
    /\ err # "none" => status = "exit1" /\ pc = "done"
    /\ (pc = "done" /\ err = "none") => status = "exit0"
    /\ cmd \in {"listen", "ping", "none"} => status \in {"running", "exit1"}
    /\ (cmd = "none" /\ pc = "done") => err # "none"

\* A ping session has ended with status 1 on its second probe.
C13_Witness ==
    /\ cmd = "ping" /\ status = "exit1" /\ failedAt = "ping_send"
    /\ nsent = 1 /\ seqnum = 2

\* C16: in the ping session a probe that cannot be sent ends the whole
\* process with status 1: no probe is sent afterwards, the counter stays, and
\* the receiver thread, even one that had a datagram in hand, receives and
\* logs nothing afterwards.
C16_ProbeSendFailureIsFatal ==
    /\ [](failedAt = "ping_send" =>
            /\ cmd = "ping"
            /\ pc = "done" /\ status = "exit1" /\ err = "Io")
    /\ [][(pc = "ping_send" /\ err' # "none") =>
            /\ failedAt' = "ping_send" /\ status' = "exit1"
            /\ UNCHANGED <<nsent, sent, nlog, logged>>]_vars
    /\ [][failedAt = "ping_send" =>
            UNCHANGED <<nsent, sent, seqnum, ops, nlog, logged, nrecv, rpc,
                        ndelivered, status>>]_vars

\* The second probe failed while the receiver was about to log a datagram.
C16_Witness ==
    /\ failedAt = "ping_send" /\ status = "exit1"
    /\ nsent = 1 /\ seqnum = 2
    /\ rpc = "log" /\ nrecv = 1 /\ nlog = 0

\* C18: what the listener sends and logs for a datagram is a function of the
\* len bytes just received and of their source, whatever the buffer holds
\* behind them from earlier datagrams; the 4 bytes PING received into a
\* buffer that still holds a longer probe are answered with the 4 bytes PONG.
C18_NoStaleBytes ==
    (cmd = "listen" /\ pc = "listen_recv" /\ nrecv > 0) =>
        /\ logged = <<SaidLine(src, Received)>>
        /\ sent = IF IsProbe(Received)
                  THEN <<[dst |-> src, data |-> PongPayload(Received)]>>
                  ELSE <<>>
        /\ (Received = PING /\ Len(buf) > len) =>
               sent = <<[dst |-> src, data |-> PONG]>>
        /\ \A i \in 1..Len(sent) : Len(sent[i].data) <= Len(PONG) + 3 * (len - Len(PING))

\* A bare PING received after "PING 1" has been answered with PONG alone.
C18_Witness ==
    /\ cmd = "listen" /\ pc = "listen_recv" /\ nrecv = 2
    /\ buf = PING \o <<32, 49>> /\ len = 4
    /\ sent = <<[dst |-> src, data |-> PONG]>>
    /\ logged = <<SaidLine(src, PING)>>

\* C15: the counter of the ping session, at its machine width, grows with
\* every send for any number of sends: it is never negative, the probe sent
\* last carries no sign, and adding one to the counter never aborts the
\* sender.
C15_CounterNeverOverflows ==
    cmd = "ping" =>
        /\ seqnum >= 0
        /\ \A i \in 1..Len(sent) : sent[i].data[Len(PINGSP) + 1] # 45
        /\ status # "panic101"

\* The line a listener logs for ping-test from the send session.
PingTestLine == [kind |-> "said", who |-> SenderEndpoint,
                 text |-> <<112, 105, 110, 103, 45, 116, 101, 115, 116>>]

\* C14: with two listeners joined to the group and a send session whose
\* input is the one chunk ping-test, both listeners eventually log ping-test
\* from the send session's ephemeral endpoint, provided the datagram reaches
\* them; no listener answers it: receiving it sends nothing, and no datagram
\* is ever addressed to the send session.
C14_BothListenersLogPingTest ==
    /\ (snd.script = <<PingTest>>)
          ~> (\A l \in Listeners : PingTestLine \in lsn[l].log)
    /\ [](snd.script = <<PingTest>> =>
             \A d \in flight : d.dst # SenderEndpoint /\ d.rcpt # "S")
    /\ [][\A d \in flight \ flight' :
             (d.src = SenderEndpoint /\ d.data = PingTest) =>
                 /\ flight' = flight \ {d}
                 /\ lsn'[d.rcpt].nsent = lsn[d.rcpt].nsent
                 /\ PingTestLine \in lsn'[d.rcpt].log]_vars

\* Both listeners have logged ping-test and have sent nothing at all.
C14_Witness ==
    /\ snd.script = <<PingTest>> /\ snd.status = "exit0"
    /\ \A l \in Listeners :
          /\ PingTestLine \in lsn[l].log
          /\ lsn[l].nsent = 0 /\ lsn[l].nrecv = 1

\* The endpoints the listen sessions send from.
ListenerEndpoints == {[addr |-> ListenerHost(l), port |-> port] : l \in Listeners}
\* d is in flight from a listen session.
IsReply(d) == d.src \in ListenerEndpoints
\* The payload starts with the four bytes PONG.
IsPong(data) == Len(data) >= 4 /\ SubSeq(data, 1, 4) = <<80, 79, 78, 71>>

\* C17: whatever a listen session sends is a PONG addressed to one endpoint,
\* the source of the probe, and queued at that socket alone, never at a
\* listener's; without a send session no listener ever logs a PONG; a
\* listener that receives a probe of the ping session puts exactly one reply
\* to the ping session's endpoint in flight, so that every copy of a probe
\* that has been received is matched by one reply, in flight to the ping
\* session or received by it.
C17_ReplyIsUnicast ==
    /\ [](\A d \in flight :
             IsReply(d) =>
                 /\ IsPong(d.data)
                 /\ d.dst # GroupEndpoint
                 /\ d.dst \in {PingerEndpoint, SenderEndpoint}
                 /\ d.rcpt \notin Listeners)
    /\ [](snd.script = <<>> =>
             \A l \in Listeners : \A ln \in lsn[l].log : ~IsPong(ln.text))
    /\ [][\A d \in flight \ flight' :
             (d.rcpt \in Listeners /\ d.src = PingerEndpoint) =>
                 /\ ~IsReply(d)
                 /\ \E r \in flight' \ flight :
                       /\ flight' = (flight \ {d}) \cup {r}
                       /\ r.dst = PingerEndpoint /\ r.rcpt = "P"
                       /\ r.src = [addr |-> ListenerHost(d.rcpt), port |-> port]]_vars
    /\ [](Cardinality({d \in flight : d.rcpt = "P"}) + png.nrecv
              + Cardinality({d \in flight : d.src = PingerEndpoint})
            = png.nsent * Cardinality(Listeners))

\* The first probe has reached both listeners, and both replies the ping
\* session.
C17_Witness ==
    /\ png.nsent = 1 /\ png.nrecv = 2
    /\ \A l \in Listeners :
          /\ lsn[l].nprobe >= 1
          /\ \E ln \in png.log : ln.who = [addr |-> ListenerHost(l), port |-> port]

\* C19: every line the ping receiver has logged, and every datagram in
\* flight to it, is "PONG " and the decimal of a number from 1 to the
\* sender's counter, from the endpoint of a listener.
C19_RepliesOnlyToSentProbes ==
    /\ \A ln \in png.log :
          /\ ln.who \in ListenerEndpoints
          /\ \E n \in 1..png.seqnum :
                ln.text = <<80, 79, 78, 71, 32>> \o Display(n)
    /\ \A d \in flight :
          d.rcpt = "P" =>
              /\ d.src \in ListenerEndpoints
              /\ \E n \in 1..png.seqnum :
                    d.data = <<80, 79, 78, 71, 32>> \o Display(n)

\* The reply of L2 to the second probe is logged; the send session's PING 9
\* has been answered too, to the send session.
C19_Witness ==
    /\ png.seqnum = 2
    /\ [kind |-> "from", who |-> [addr |-> ListenerHost("L2"), port |-> port],
        text |-> <<80, 79, 78, 71, 32, 50>>] \in png.log
    /\ \E d \in flight : d.rcpt = "S" /\ d.data = <<80, 79, 78, 71, 32, 57>>

\* C20: a listener has never sent more datagrams than it has received
\* datagrams that start with PING, and it sends one only in the step that
\* receives such a datagram; the step of any session that receives a
\* datagram that starts with PONG sends nothing: no send count changes and
\* nothing new is in flight.
C20_NoAmplification ==
    /\ [](\A l \in Listeners :
             lsn[l].nsent <= lsn[l].nprobe /\ lsn[l].nprobe <= lsn[l].nrecv)
    /\ [][\A l \in Listeners :
             lsn'[l].nsent # lsn[l].nsent =>
                 /\ lsn'[l].nsent = lsn[l].nsent + 1
                 /\ \E d \in flight \ flight' :
                       d.rcpt = l /\ IsProbe(d.data)]_vars
    /\ [][(\E d \in flight \ flight' : IsPong(d.data)) =>
             /\ flight' \subseteq flight
             /\ png'.nsent = png.nsent /\ png'.seqnum = png.seqnum
             /\ snd'.nsent = snd.nsent
             /\ \A l \in Listeners : lsn'[l].nsent = lsn[l].nsent]_vars
    /\ [](Cardinality(flight) + png.nrecv
            <= Cardinality(Listeners) * 2 * (png.nsent + snd.nsent))

\* L1 has received two probes and the send session's PONG 1 and has sent two
\* replies; the ping session has received PONGs.
C20_Witness ==
    /\ snd.script = <<<<80, 79, 78, 71, 32, 49>>>>
    /\ lsn["L1"].nrecv = 3 /\ lsn["L1"].nprobe = 2 /\ lsn["L1"].nsent = 2
    /\ png.nrecv >= 2 /\ png.nsent = 2

====
